---- MODULE Spec2Model ----
(***************************************************************************)
(* The two MAS scoring clients of the repository:                          *)
(*   score_with_mas_rest.py    (requests against the MAS REST API)         *)
(*   score_with_mas_sasctl.py  (sasctl's microanalytic_score service)      *)
(* One behaviour is one run of one script's main().  The service's         *)
(* answers (status, body) are inputs drawn from bounded sets.              *)
(*                                                                         *)
(* Data: a Python dict is a sequence of [name, value] pairs with distinct  *)
(* names, in insertion order; a JSON list of {name, value} objects is a    *)
(* sequence of such pairs in which names may repeat.  A URL is the         *)
(* sequence of its path segments after the host.                           *)
(***************************************************************************)
EXTENDS Integers, Sequences, FiniteSets, TLC

\* ---- bounds of the model ----
MaxRecords == 2
MaxSteps == 3

\* ---- bounded input alphabets ----
Modules == {"hmeq"}
Keys == {"LOAN", "loan"}
Values == {0, 50000}
StepIds == {"score", "Score", "predict", "train"}
Statuses == {200, 304, 404, 500}
NoResponse == 0

\* str.lower() on the strings of the model
lower(s) ==
  CASE s = "LOAN" -> "loan"
    [] s = "BAD" -> "bad"
    [] s = "Score" -> "score"
    [] s = "SCORE" -> "score"
    [] OTHER -> s

SeqsUpTo(S, n) == UNION {[1..k -> S] : k \in 0..n}

Pair(n, v) == [name |-> n, value |-> v]

\* ---- Python dict as an insertion-ordered sequence of pairs ----
DictKeys(d) == {d[j].name : j \in 1..Len(d)}

\* d[k] = v
DictSet(d, k, v) ==
  IF k \in DictKeys(d)
  THEN [j \in 1..Len(d) |-> IF d[j].name = k THEN Pair(k, v) ELSE d[j]]
  ELSE Append(d, Pair(k, v))

DictGet(d, k) == d[CHOOSE j \in 1..Len(d) : d[j].name = k].value

\* for p in pairs: d[p.name] = p.value   (dict.update, dict comprehension)
RECURSIVE DictUpdateFrom(_, _, _)
DictUpdateFrom(d, pairs, j) ==
  IF j > Len(pairs) THEN d
  ELSE DictUpdateFrom(DictSet(d, pairs[j].name, pairs[j].value), pairs, j + 1)

DictUpdate(d, pairs) == DictUpdateFrom(d, pairs, 1)

\* ---- the CSV: df.to_dict(orient='records') ----
\* every record has the columns of the header, in header order
ColumnSeqs ==
  {c \in SeqsUpTo(Keys, Cardinality(Keys)) :
     Len(c) >= 1 /\ \A a, b \in 1..Len(c) : a # b => c[a] # c[b]}

RecordOf(c, vals) == [j \in 1..Len(c) |-> Pair(c[j], vals[j])]

CsvRecords ==
  UNION {{[j \in 1..n |-> RecordOf(c, vs[j])] : vs \in [1..n -> [1..Len(c) -> Values]]} :
           c \in ColumnSeqs, n \in 0..MaxRecords}

\* ---- what the service can answer ----
StepListings == SeqsUpTo({[id |-> s] : s \in StepIds}, MaxSteps)
SasctlStepListings == SeqsUpTo({[id |-> s] : s \in StepIds \cup {""}}, MaxSteps)
ModuleListings == {<<>>} \cup {<<[name |-> m]>> : m \in Modules}
\* the 'outputs' and the echoed 'inputs' of a scoring response
OutputLists == {<<>>, <<Pair("bad", 0)>>, <<Pair("loan", 999)>>}
EchoLists == {<<>>, <<Pair("loan", 50000)>>}
ScoreBodies == {[outputs |-> o, inputs |-> e] : o \in OutputLists, e \in EchoLists}

\* raise_for_status that lets client errors through
raise_for_status5xx(status) == status >= 500 /\ status < 600

\* r.raise_for_status() raises HTTPError exactly on a 4xx or 5xx status
raise_for_status(status) == status >= 400 /\ status < 600

\* r.ok that counts a client error as a success
okLenient(status) == status < 500

\* r.ok
ok(status) == ~(status >= 400 /\ status < 600)

VARIABLES script, module, pc, mods, records, items, ret, step, url, i,
          all_results, r, result, scored, out, csv, error, log

vars == <<script, module, pc, mods, records, items, ret, step, url, i,
          all_results, r, result, scored, out, csv, error, log>>

NoResult == [isdict |-> FALSE, d |-> <<>>]
NoError == [type |-> "", in |-> "", module |-> ""]
Err(t, f) == [type |-> t, in |-> f, module |-> ""]
NoBody == [outputs |-> <<>>, inputs |-> <<>>]
\* one entry of the log of calls made to the service; response is the parsed
\* body of a scoring call that was answered, NoBody otherwise
Exchange(m, u, p, b) == [method |-> m, url |-> u, payload |-> p, response |-> b]
Call(m, u, p) == Exchange(m, u, p, NoBody)

Init ==
  /\ script \in {"rest", "sasctl"}
  /\ module \in Modules
  /\ pc = IF script = "rest" THEN "list_modules" ELSE "s_list_modules"
  /\ mods = <<>>
  /\ records = <<>>
  /\ items = <<>>
  /\ ret = ""
  /\ step = ""
  /\ url = <<>>
  /\ i = 0
  /\ all_results = <<>>
  /\ r = NoResponse
  /\ result = NoResult
  /\ scored = <<>>
  /\ out = <<>>
  /\ csv = [written |-> FALSE, rows |-> <<>>]
  /\ error = NoError
  /\ log = <<>>

Raise(e) == pc' = "raised" /\ error' = e

\* ---- score_with_mas_rest.py ----

\* list_modules, called by main
ListModules ==
  /\ script = "rest" /\ pc = "list_modules"
  /\ log' = Append(log, Call("GET", <<"modules">>, <<>>))
  /\ \/ /\ r' = NoResponse
        /\ Raise(Err("ConnectionError", "list_modules"))
        /\ UNCHANGED mods
     \/ \E status \in Statuses :
          /\ r' = status
          /\ IF raise_for_status(status)
             THEN Raise(Err("HTTPError", "list_modules")) /\ UNCHANGED mods
             ELSE \/ Raise(Err("JSONDecodeError", "list_modules")) /\ UNCHANGED mods
                  \/ \E listing \in ModuleListings :
                       /\ mods' = [j \in 1..Len(listing) |-> listing[j].name]
                       /\ pc' = "read_csv"
                       /\ UNCHANGED error
  /\ UNCHANGED <<script, module, records, items, ret, step, url, i,
                 all_results, result, scored, out, csv>>

\* main: pd.read_csv and df.to_dict(orient='records')
ReadCsv ==
  /\ script = "rest" /\ pc = "read_csv"
  /\ \/ Raise(Err("FileNotFoundError", "main")) /\ UNCHANGED records
     \/ \E recs \in CsvRecords :
          /\ records' = recs
          /\ pc' = "get_step_id"
          /\ UNCHANGED error
  /\ UNCHANGED <<script, module, mods, items, ret, step, url, i,
                 all_results, r, result, scored, out, csv, log>>

\* get_step_id: the steps listing request
GetSteps ==
  /\ script = "rest" /\ pc = "get_step_id"
  /\ log' = Append(log, Call("GET", <<"modules", module, "steps">>, <<>>))
  /\ \/ /\ r' = NoResponse
        /\ Raise(Err("ConnectionError", "get_step_id"))
        /\ UNCHANGED items
     \/ \E status \in Statuses :
          /\ r' = status
          /\ IF raise_for_status(status)
             THEN Raise(Err("HTTPError", "get_step_id")) /\ UNCHANGED items
             ELSE \/ Raise(Err("JSONDecodeError", "get_step_id")) /\ UNCHANGED items
                  \/ \E listing \in StepListings :
                       /\ items' = listing
                       /\ pc' = "select_step"
                       /\ UNCHANGED error
  /\ UNCHANGED <<script, module, mods, records, ret, step, url, i,
                 all_results, result, scored, out, csv>>

\* a scan that never matches
ScanScoreNone(its, k) == 0

\* for step in items: if step['id'].lower() == 'score': return step['id']
RECURSIVE ScanScore(_, _)
ScanScore(its, k) ==
  IF k > Len(its) THEN 0
  ELSE IF lower(its[k].id) = "score" THEN k
  ELSE ScanScore(its, k + 1)

\* the selection falling back to the last step instead of the first
SelectStepIdLast(its) ==
  LET k == ScanScore(its, 1) IN
  IF k # 0 THEN [raised |-> FALSE, value |-> its[k].id]
  ELSE IF its = <<>> THEN [raised |-> TRUE, value |-> ""]
  ELSE [raised |-> FALSE, value |-> its[Len(its)].id]

\* the selection defaulting to "score" when the listing is empty
SelectStepIdDefault(its) ==
  LET k == ScanScore(its, 1) IN
  IF k # 0 THEN [raised |-> FALSE, value |-> its[k].id]
  ELSE IF its = <<>> THEN [raised |-> FALSE, value |-> "score"]
  ELSE [raised |-> FALSE, value |-> its[1].id]

\* get_step_id: the selection
SelectStepId(its) ==
  LET k == ScanScore(its, 1) IN
  IF k # 0 THEN [raised |-> FALSE, value |-> its[k].id]
  ELSE IF its = <<>> THEN [raised |-> TRUE, value |-> ""]
  ELSE [raised |-> FALSE, value |-> its[1].id]

NoStepsError(m) == [type |-> "RuntimeError", in |-> "get_step_id", module |-> m]

SelectStep ==
  /\ script = "rest" /\ pc = "select_step"
  /\ LET res == SelectStepId(items) IN
     IF res.raised
     THEN Raise(NoStepsError(module)) /\ UNCHANGED ret
     ELSE ret' = res.value /\ pc' = "step_return" /\ UNCHANGED error
  /\ UNCHANGED <<script, module, mods, records, items, step, url, i,
                 all_results, r, result, scored, out, csv, log>>

\* score_records: step = get_step_id(...), url, headers, all_results = []
StepUrl(m, s) == <<"modules", m, "steps", s>>

AssignStep ==
  /\ script = "rest" /\ pc = "step_return"
  /\ step' = ret
  /\ url' = StepUrl(module, ret)
  /\ items' = <<>>
  /\ ret' = ""
  /\ all_results' = <<>>
  /\ i' = 1
  /\ pc' = "loop"
  /\ UNCHANGED <<script, module, mods, records, r, result, scored, out, csv, error, log>>

\* inputs built through a dict keyed by the lower-cased name
BuildInputsDedup(rec) ==
  DictUpdate(<<>>, [j \in 1..Len(rec) |-> Pair(lower(rec[j].name), rec[j].value)])

\* inputs = [{'name': k.lower(), 'value': v} for k, v in rec.items()]
BuildInputs(rec) == [j \in 1..Len(rec) |-> Pair(lower(rec[j].name), rec[j].value)]

BuildPayload(rec) == [inputs |-> BuildInputs(rec)]

\* all_results.insert(0, ...)
AppendResultFront(results, body) == <<body>> \o results

AppendResult(results, body) == Append(results, body)

\* score_records with the step resolved again for every record
ScoreRecordReresolve ==
  /\ script = "rest" /\ pc = "loop" /\ i <= Len(records)
  /\ LET payload == BuildPayload(records[i])
         steps == Call("GET", <<"modules", module, "steps">>, <<>>) IN
     \E status \in Statuses :
       /\ r' = status
       /\ IF ~ok(status) /\ raise_for_status(status)
          THEN /\ log' = log \o <<steps, Call("POST", url, payload)>>
               /\ Raise(Err("HTTPError", "score_records"))
               /\ UNCHANGED <<all_results, i>>
          ELSE \E body \in ScoreBodies :
                 /\ log' = log \o <<steps, Exchange("POST", url, payload, body)>>
                 /\ all_results' = AppendResult(all_results, body)
                 /\ i' = i + 1
                 /\ UNCHANGED <<pc, error>>
  /\ UNCHANGED <<script, module, mods, records, items, ret, step, url,
                 result, scored, out, csv>>

\* score_records skipping a record whose call was refused (except: continue)
ScoreRecordSkipFailed ==
  /\ script = "rest" /\ pc = "loop" /\ i <= Len(records)
  /\ LET payload == BuildPayload(records[i]) IN
     \E status \in Statuses :
       /\ r' = status
       /\ IF ~ok(status) /\ raise_for_status(status)
          THEN /\ log' = Append(log, Call("POST", url, payload))
               /\ i' = i + 1
               /\ UNCHANGED <<all_results, pc, error>>
          ELSE \E body \in ScoreBodies :
                 /\ log' = Append(log, Exchange("POST", url, payload, body))
                 /\ all_results' = AppendResult(all_results, body)
                 /\ i' = i + 1
                 /\ UNCHANGED <<pc, error>>
  /\ UNCHANGED <<script, module, mods, records, items, ret, step, url,
                 result, scored, out, csv>>

\* score_records: one iteration of the per-record loop
ScoreRecord ==
  /\ script = "rest" /\ pc = "loop" /\ i <= Len(records)
  /\ LET payload == BuildPayload(records[i]) IN
     \/ /\ r' = NoResponse
        /\ log' = Append(log, Call("POST", url, payload))
        /\ Raise(Err("ConnectionError", "score_records"))
        /\ UNCHANGED <<all_results, i>>
     \/ \E status \in Statuses :
          /\ r' = status
          /\ IF ~ok(status) /\ raise_for_status(status)
             THEN /\ log' = Append(log, Call("POST", url, payload))
                  /\ Raise(Err("HTTPError", "score_records"))
                  /\ UNCHANGED <<all_results, i>>
             ELSE \/ /\ log' = Append(log, Call("POST", url, payload))
                     /\ Raise(Err("JSONDecodeError", "score_records"))
                     /\ UNCHANGED <<all_results, i>>
                  \/ \E body \in ScoreBodies :
                       /\ log' = Append(log, Exchange("POST", url, payload, body))
                       /\ all_results' = AppendResult(all_results, body)
                       /\ i' = i + 1
                       /\ UNCHANGED <<pc, error>>
  /\ UNCHANGED <<script, module, mods, records, items, ret, step, url,
                 result, scored, out, csv>>

\* score_records: return all_results, bound to scored in main
ReturnResults ==
  /\ script = "rest" /\ pc = "loop" /\ i > Len(records)
  /\ scored' = all_results
  /\ all_results' = <<>>
  /\ pc' = "merge"
  /\ UNCHANGED <<script, module, mods, records, items, ret, step, url, i,
                 r, result, out, csv, error, log>>

\* the row built from the echoed inputs first and the outputs second
ResultRowOutputsLast(item) == DictUpdate(DictUpdate(<<>>, item.inputs), item.outputs)

\* row = {o['name']: o['value'] for o in item.get('outputs', [])}
\* for i in item.get('inputs', []): row[i['name']] = i['value']
ResultRow(item) == DictUpdate(DictUpdate(<<>>, item.outputs), item.inputs)

\* main: the loop building out
MergeRows ==
  /\ script = "rest" /\ pc = "merge"
  /\ out' = [j \in 1..Len(scored) |-> ResultRow(scored[j])]
  /\ pc' = "write"
  /\ UNCHANGED <<script, module, mods, records, items, ret, step, url, i,
                 all_results, r, result, scored, csv, error, log>>

\* main: pd.DataFrame(out).to_csv(args.output_csv, index=False)
WriteCsv ==
  /\ script = "rest" /\ pc = "write"
  /\ csv' = [written |-> TRUE, rows |-> out]
  /\ pc' = "done"
  /\ UNCHANGED <<script, module, mods, records, items, ret, step, url, i,
                 all_results, r, result, scored, out, error, log>>

\* ---- score_with_mas_sasctl.py ----

\* list_modules and main's check that the requested module is deployed
SasctlListModules ==
  /\ script = "sasctl" /\ pc = "s_list_modules"
  /\ log' = Append(log, Call("list_modules", <<>>, <<>>))
  /\ \/ Raise(Err("Exception", "list_modules")) /\ UNCHANGED mods
     \/ Raise(Err("ValueError", "list_modules")) /\ UNCHANGED mods
     \/ \E listing \in ModuleListings :
          /\ mods' = [j \in 1..Len(listing) |-> listing[j].name]
          /\ pc' = IF module \in {listing[j].name : j \in 1..Len(listing)}
                   THEN "s_read_csv" ELSE "done"
          /\ UNCHANGED error
  /\ UNCHANGED <<script, module, records, items, ret, step, url, i,
                 all_results, r, result, scored, out, csv>>

\* main: pd.read_csv and df.to_dict(orient='records')
SasctlReadCsv ==
  /\ script = "sasctl" /\ pc = "s_read_csv"
  /\ \/ Raise(Err("FileNotFoundError", "main")) /\ UNCHANGED records
     \/ \E recs \in CsvRecords :
          /\ records' = recs
          /\ pc' = "s_module_info"
          /\ UNCHANGED error
  /\ UNCHANGED <<script, module, mods, items, ret, step, url, i,
                 all_results, r, result, scored, out, csv, log>>

\* get_module_info: get_module, list_module_steps
GetModuleInfo ==
  /\ script = "sasctl" /\ pc = "s_module_info"
  /\ log' = Append(log, Call("list_module_steps", <<module>>, <<>>))
  /\ \/ Raise(Err("Exception", "get_module_info")) /\ UNCHANGED items
     \/ Raise(Err("ValueError", "get_module_info")) /\ UNCHANGED items
     \/ \E listing \in SasctlStepListings :
          /\ items' = listing
          /\ pc' = "s_select_step"
          /\ UNCHANGED error
  /\ UNCHANGED <<script, module, mods, records, ret, step, url, i,
                 all_results, r, result, scored, out, csv>>

\* for step in steps: if step_id and step_id.lower() == 'score': ... break
RECURSIVE SasctlScanScore(_, _)
SasctlScanScore(steps, k) ==
  IF k > Len(steps) THEN 0
  ELSE IF steps[k].id # "" /\ lower(steps[k].id) = "score" THEN k
  ELSE SasctlScanScore(steps, k + 1)

\* score_records: the selection of score_step ("" is a missing or empty id)
SasctlSelectStepId(steps) ==
  LET k == SasctlScanScore(steps, 1)
      found == IF k # 0 THEN steps[k].id ELSE ""
      chosen == IF found = "" /\ steps # <<>> THEN steps[1].id ELSE found
  IN  IF chosen = "" THEN [raised |-> TRUE, value |-> ""]
      ELSE [raised |-> FALSE, value |-> chosen]

SasctlNoStepsError(m) == [type |-> "RuntimeError", in |-> "score_records", module |-> m]

SasctlSelectStep ==
  /\ script = "sasctl" /\ pc = "s_select_step"
  /\ LET res == SasctlSelectStepId(items) IN
     IF res.raised
     THEN Raise(SasctlNoStepsError(module)) /\ UNCHANGED step
     ELSE step' = res.value /\ pc' = "s_selected" /\ UNCHANGED error
  /\ UNCHANGED <<script, module, mods, records, items, ret, url, i,
                 all_results, r, result, scored, out, csv, log>>

\* score_records: all_results = []; steps is not read from here on
SasctlEnterLoop ==
  /\ script = "sasctl" /\ pc = "s_selected"
  /\ all_results' = <<>>
  /\ items' = <<>>
  /\ i' = 1
  /\ pc' = "s_loop"
  /\ UNCHANGED <<script, module, mods, records, ret, step, url,
                 r, result, scored, out, csv, error, log>>

\* record_lower = {k.lower(): v for k, v in record.items()}
RecordLower(rec) == DictUpdate(<<>>, [j \in 1..Len(rec) |-> Pair(lower(rec[j].name), rec[j].value)])

\* the row built from the inputs first and the outputs second
SasctlResultRowOutputsWin(res, record_lower) ==
  DictUpdate(record_lower, IF res.isdict THEN res.d ELSE <<>>)

\* result_row = {}; update(result) if it is a dict; update(record_lower)
SasctlResultRow(res, record_lower) ==
  DictUpdate(IF res.isdict THEN DictUpdate(<<>>, res.d) ELSE <<>>, record_lower)

SasctlResults ==
  {[isdict |-> TRUE, d |-> DictUpdate(<<>>, o)] : o \in OutputLists} \cup {NoResult}

\* score_records: one iteration of the per-record loop
SasctlScoreRecord ==
  /\ script = "sasctl" /\ pc = "s_loop" /\ i <= Len(records)
  /\ LET record_lower == RecordLower(records[i]) IN
     /\ log' = Append(log, Call("execute_module_step", <<module, step>>, record_lower))
     /\ \/ Raise(Err("Exception", "score_records")) /\ UNCHANGED <<all_results, i, result>>
        \/ \E res \in SasctlResults :
             /\ result' = res
             /\ all_results' = Append(all_results, SasctlResultRow(res, record_lower))
             /\ i' = i + 1
             /\ UNCHANGED <<pc, error>>
  /\ UNCHANGED <<script, module, mods, records, items, ret, step, url,
                 r, scored, out, csv>>

\* score_records: return all_results, bound to scored in main
SasctlReturn ==
  /\ script = "sasctl" /\ pc = "s_loop" /\ i > Len(records)
  /\ scored' = all_results
  /\ all_results' = <<>>
  /\ pc' = "s_write"
  /\ UNCHANGED <<script, module, mods, records, items, ret, step, url, i,
                 r, result, out, csv, error, log>>

\* main: pd.DataFrame(scored).to_csv(args.output_csv, index=False)
SasctlWriteCsv ==
  /\ script = "sasctl" /\ pc = "s_write"
  /\ csv' = [written |-> TRUE, rows |-> scored]
  /\ pc' = "done"
  /\ UNCHANGED <<script, module, mods, records, items, ret, step, url, i,
                 all_results, r, result, scored, out, error, log>>

Next ==
  \/ ListModules
  \/ ReadCsv
  \/ GetSteps
  \/ SelectStep
  \/ AssignStep
  \/ ScoreRecord
  \/ ReturnResults
  \/ MergeRows
  \/ WriteCsv
  \/ SasctlListModules
  \/ SasctlReadCsv
  \/ GetModuleInfo
  \/ SasctlSelectStep
  \/ SasctlEnterLoop
  \/ SasctlScoreRecord
  \/ SasctlReturn
  \/ SasctlWriteCsv

Spec == Init /\ [][Next]_vars

\* ---- vocabulary of the properties ----
IsPost(e) == e.method = "POST"
Posts(l) == SelectSeq(l, IsPost)
IsScoreId(s) == s \in {"score", "Score", "SCORE"}
HasScoreId(its) == \E k \in 1..Len(its) : IsScoreId(its[k].id)
FirstScoreId(its, s) ==
  \E k \in 1..Len(its) :
    /\ IsScoreId(its[k].id)
    /\ \A j \in 1..(k - 1) : ~IsScoreId(its[j].id)
    /\ s = its[k].id
KeyLower(k) == IF k \in {"LOAN", "loan"} THEN "loan" ELSE IF k \in {"BAD", "bad"} THEN "bad" ELSE k
NamesOf(list) == {list[j].name : j \in 1..Len(list)}
LastValue(list, n) ==
  list[CHOOSE j \in 1..Len(list) :
         list[j].name = n /\ \A k \in (j + 1)..Len(list) : list[k].name # n].value
LoweredNames(rec) == {KeyLower(rec[j].name) : j \in 1..Len(rec)}
LoweredValue(rec, n) ==
  rec[CHOOSE j \in 1..Len(rec) :
        KeyLower(rec[j].name) = n /\ \A k \in (j + 1)..Len(rec) : KeyLower(rec[k].name) # n].value
StepsUrl == <<"modules", module, "steps">>
StepsGets == {j \in 1..Len(log) : log[j].method = "GET" /\ log[j].url = StepsUrl}
PostIndexes == {j \in 1..Len(log) : log[j].method = "POST"}
LastCall == log[Len(log)]
Is2xx(status) == status >= 200 /\ status <= 299
Is4xx5xx(status) == status >= 400 /\ status <= 599
RestReturned == script = "rest" /\ pc \in {"merge", "write", "done"}
RestMerged == script = "rest" /\ pc \in {"write", "done"}

\* C1: when the steps listing holds an id that lower-cases to "score", the
\* step chosen is the first such id of the listing, wherever it stands, and
\* the "no steps" error is not raised (REST get_step_id and sasctl score_records)
C1_ScoreStepChosen ==
  /\ (script = "rest" /\ pc = "step_return" /\ HasScoreId(items)) => FirstScoreId(items, ret)
  /\ (script = "sasctl" /\ pc = "s_selected" /\ HasScoreId(items)) => FirstScoreId(items, step)
  /\ (pc = "raised" /\ error.type = "RuntimeError") => ~HasScoreId(items)

C1_Witness ==
  /\ script = "rest" /\ pc = "step_return"
  /\ items = <<[id |-> "predict"], [id |-> "Score"], [id |-> "score"]>>
  /\ ret = "Score"

\* C2: when the steps listing is non-empty and no id lower-cases to "score",
\* get_step_id returns the id of the first step of the listing
C2_FirstStepFallback ==
  (script = "rest" /\ pc = "step_return" /\ ~HasScoreId(items)) =>
     (items # <<>> /\ ret = items[1].id)

C2_Witness ==
  /\ script = "rest" /\ pc = "step_return"
  /\ Len(items) >= 2 /\ ~HasScoreId(items)
  /\ ret = items[1].id

\* C3: on an empty steps listing get_step_id raises the "no steps" runtime
\* error naming the module, and the run has sent no scoring POST
C3_EmptyListingRaises ==
  /\ [](script = "rest" /\ pc = "raised" /\ error.type = "RuntimeError"
          => error.module = module /\ items = <<>> /\ Posts(log) = <<>>)
  /\ [][(script = "rest" /\ pc = "select_step" /\ items = <<>>) =>
          (/\ pc' = "raised"
           /\ error' = [type |-> "RuntimeError", in |-> "get_step_id", module |-> module]
           /\ log' = log)]_vars

C3_Witness ==
  /\ script = "rest" /\ pc = "raised"
  /\ error = [type |-> "RuntimeError", in |-> "get_step_id", module |-> module]
  /\ Len(records) >= 2
  /\ Posts(log) = <<>>

\* C4: when score_records returns, the calls after the two listings are
\* exactly one POST per record in input order, and the j-th element returned
\* is the body answered to the j-th record's request
C4_OneResultPerRecordInOrder ==
  RestReturned =>
    /\ Len(scored) = Len(records)
    /\ Len(log) = 2 + Len(records)
    /\ \A j \in 1..Len(records) :
         /\ log[2 + j].method = "POST"
         /\ Len(log[2 + j].payload.inputs) = Len(records[j])
         /\ \A k \in 1..Len(records[j]) :
              log[2 + j].payload.inputs[k].value = records[j][k].value
         /\ scored[j] = log[2 + j].response

C4_Witness ==
  /\ RestReturned
  /\ Len(records) = 2 /\ records[1] # records[2]
  /\ scored[1] # scored[2]

\* C5 as stated: a non-2xx status on the scoring call of record k makes
\* score_records raise, with no POST after record k and nothing returned
C5_AsStated ==
  (script = "rest" /\ log # <<>> /\ IsPost(LastCall) /\ r # NoResponse /\ ~Is2xx(r)) =>
     /\ pc = "raised"
     /\ Cardinality(PostIndexes) = i
     /\ scored = <<>> /\ out = <<>>

\* C5 amended: a 4xx or 5xx status on the scoring call of record k makes
\* score_records raise the HTTP error, with exactly k POSTs sent (one per
\* record up to k, none after) and nothing returned to the caller
C5_ErrorStatusAborts ==
  (script = "rest" /\ log # <<>> /\ IsPost(LastCall) /\ Is4xx5xx(r)) =>
     /\ pc = "raised"
     /\ error = [type |-> "HTTPError", in |-> "score_records", module |-> ""]
     /\ Cardinality(PostIndexes) = i
     /\ Len(all_results) = i - 1
     /\ scored = <<>> /\ out = <<>>

C5_Witness ==
  /\ script = "rest" /\ pc = "raised" /\ error.in = "score_records"
  /\ r = 404 /\ i = 1 /\ Len(records) = 2
  /\ Cardinality(PostIndexes) = 1

\* C6: the payload of the j-th POST is {"inputs": [...]} with one entry per
\* key of the j-th record, in key order, the name being the key lower-cased
\* and the value the record's value; nothing is filtered or merged
C6_PayloadShape ==
  script = "rest" =>
    \A j \in 1..Len(Posts(log)) :
      /\ j <= Len(records)
      /\ Posts(log)[j].payload =
           [inputs |-> [k \in 1..Len(records[j]) |->
                          [name |-> KeyLower(records[j][k].name),
                           value |-> records[j][k].value]]]

C6_Witness ==
  /\ script = "rest" /\ Len(Posts(log)) >= 1
  /\ records[1] = <<Pair("LOAN", 0), Pair("loan", 50000)>>
  /\ Posts(log)[1].payload = [inputs |-> <<Pair("loan", 0), Pair("loan", 50000)>>]

\* C7: the REST result row has the names of the response's outputs and of its
\* echoed inputs; a name among the echoed inputs holds the echoed value, any
\* other name holds the output's value
C7_EchoedInputsOverwrite ==
  RestMerged =>
    /\ Len(out) = Len(scored)
    /\ \A j \in 1..Len(scored) :
         LET o == scored[j].outputs
             e == scored[j].inputs
         IN  /\ DictKeys(out[j]) = NamesOf(o) \cup NamesOf(e)
             /\ Cardinality(DictKeys(out[j])) = Len(out[j])
             /\ \A n \in NamesOf(e) : DictGet(out[j], n) = LastValue(e, n)
             /\ \A n \in NamesOf(o) \ NamesOf(e) : DictGet(out[j], n) = LastValue(o, n)

C7_Witness ==
  /\ RestMerged /\ Len(scored) >= 1
  /\ scored[1] = [outputs |-> <<Pair("loan", 999)>>, inputs |-> <<Pair("loan", 50000)>>]
  /\ out[1] = <<Pair("loan", 50000)>>

\* the row of the record scored last by the sasctl client
SasctlScored == script = "sasctl" /\ pc = "s_loop" /\ i > 1
SasctlOutputs == IF result.isdict THEN result.d ELSE <<>>

\* C8 as stated: the row merges the outputs with the record's lower-cased
\* input values, and on a shared name the output's value is in the row
C8_AsStated ==
  SasctlScored =>
    LET row == all_results[i - 1]
        rec == records[i - 1]
    IN  /\ DictKeys(row) = NamesOf(SasctlOutputs) \cup LoweredNames(rec)
        /\ \A n \in NamesOf(SasctlOutputs) : DictGet(row, n) = LastValue(SasctlOutputs, n)
        /\ \A n \in LoweredNames(rec) \ NamesOf(SasctlOutputs) :
             DictGet(row, n) = LoweredValue(rec, n)

\* C8 amended: the row merges the outputs with the input values (sasctl: the
\* record's own values under lower-cased names; REST: the inputs echoed by the
\* response), and on a shared name the input's value is in the row
C8_InputsTakePrecedence ==
  /\ SasctlScored =>
       LET row == all_results[i - 1]
           rec == records[i - 1]
       IN  /\ DictKeys(row) = NamesOf(SasctlOutputs) \cup LoweredNames(rec)
           /\ \A n \in LoweredNames(rec) : DictGet(row, n) = LoweredValue(rec, n)
           /\ \A n \in NamesOf(SasctlOutputs) \ LoweredNames(rec) :
                DictGet(row, n) = LastValue(SasctlOutputs, n)
  /\ RestMerged =>
       \A j \in 1..Len(scored) :
         \A n \in NamesOf(scored[j].outputs) \cap NamesOf(scored[j].inputs) :
           DictGet(out[j], n) = LastValue(scored[j].inputs, n)

C8_Witness ==
  /\ SasctlScored
  /\ result = [isdict |-> TRUE, d |-> <<Pair("loan", 999)>>]
  /\ records[i - 1] = <<Pair("LOAN", 0), Pair("loan", 50000)>>
  /\ all_results[i - 1] = <<Pair("loan", 50000)>>

\* C9: a run of score_records lists the steps once, as the call just before
\* the first POST, and every POST goes to the endpoint of the module and of
\* the step resolved then
C9_StepResolvedOnce ==
  script = "rest" =>
    /\ Cardinality(StepsGets) <= 1
    /\ \A j \in PostIndexes :
         /\ StepsGets = {2}
         /\ j > 2
         /\ log[j].url = <<"modules", module, "steps", step>>
         /\ log[j].url = url
    /\ (pc = "loop" => step \in StepIds /\ url = <<"modules", module, "steps", step>>)

C9_Witness ==
  /\ script = "rest" /\ pc = "loop"
  /\ Cardinality(PostIndexes) = 2
  /\ step = "predict"

\* C10 as stated: a listing call that meets a connection error or a non-2xx
\* status raises there and then, so nothing is requested after it
C10_AsStated ==
  (script = "rest" /\ log # <<>> /\ LastCall.method = "GET" /\ ~Is2xx(r)) =>
     /\ pc = "raised"
     /\ Posts(log) = <<>>

\* C10 amended: a listing call that meets a connection error or a 4xx/5xx
\* status raises there and then: it is the last call of the run, made once,
\* with no steps listing after a failed module listing and no POST at all
C10_ListingErrorAborts ==
  (script = "rest" /\ log # <<>> /\ LastCall.method = "GET"
     /\ (r = NoResponse \/ Is4xx5xx(r))) =>
     /\ pc = "raised"
     /\ error.type = (IF r = NoResponse THEN "ConnectionError" ELSE "HTTPError")
     /\ error.in = (IF LastCall.url = StepsUrl THEN "get_step_id" ELSE "list_modules")
     /\ Posts(log) = <<>>
     /\ Len(log) = (IF LastCall.url = StepsUrl THEN 2 ELSE 1)
     /\ log[1].url = <<"modules">>

C10_Witness ==
  /\ script = "rest" /\ pc = "raised"
  /\ error = [type |-> "HTTPError", in |-> "get_step_id", module |-> ""]
  /\ r = 404 /\ Len(log) = 2 /\ Len(records) >= 1

\* C11: in the REST script the output file is written only at the end of a
\* run in which nothing was raised and every record was posted and answered;
\* a run that raised never has the file; the file written has one row per
\* input record, the j-th row built from the answer to the j-th record
C11_OutputOnlyAfterAllScored ==
  script = "rest" =>
    /\ pc # "done" => (~csv.written /\ csv.rows = <<>>)
    /\ csv.written =>
         /\ pc = "done" /\ error = NoError
         /\ Len(csv.rows) = Len(records)
         /\ Len(log) = 2 + Len(records)
         /\ \A j \in 1..Len(records) :
              LET call == log[2 + j]
                  o == call.response.outputs
                  e == call.response.inputs
              IN  /\ call.method = "POST"
                  /\ Len(call.payload.inputs) = Len(records[j])
                  /\ \A k \in 1..Len(records[j]) :
                       call.payload.inputs[k].value = records[j][k].value
                  /\ DictKeys(csv.rows[j]) = NamesOf(o) \cup NamesOf(e)
                  /\ \A n \in NamesOf(e) : DictGet(csv.rows[j], n) = LastValue(e, n)
                  /\ \A n \in NamesOf(o) \ NamesOf(e) :
                       DictGet(csv.rows[j], n) = LastValue(o, n)

C11_Witness ==
  /\ script = "rest" /\ pc = "done" /\ csv.written
  /\ Len(records) = 2 /\ records[1] # records[2]
  /\ csv.rows[1] # csv.rows[2]

====
